---- MODULE Spec2Model ----
(***************************************************************************)
(* Meeting-history controller (add, index, view, deleteData, deleteMany)   *)
(* over the MeetingHistory, User and Contacts collections.                 *)
(*                                                                         *)
(* Each handler is translated from its code.  A handler that awaits two    *)
(* store calls (index, view) is split at the second await, so that other   *)
(* requests can run between its two store reads.                           *)
(***************************************************************************)
EXTENDS Naturals, Sequences, FiniteSets, TLC

VARIABLES store, res, viewReq, indexReq

vars == <<store, res, viewReq, indexReq>>

(* ------------------------------ bounds --------------------------------- *)

\* number of distinct meeting ids (ObjectIds) the model draws from
MaxMeetings == 2

MeetingIds == 1..MaxMeetings

(* ------------------- the User and Contacts collections ----------------- *)

\* documents of the "User" collection (read-only here)
Users ==
  [ u1    |-> [firstName |-> "Ann",  lastName |-> "Lee",  role |-> "user"],
    u2    |-> [firstName |-> "Bob",  lastName |-> "Ray",  role |-> "user"],
    admin |-> [firstName |-> "Root", lastName |-> "Sys",  role |-> "superAdmin"] ]

\* req.user.userId as the auth middleware sets it; "ghost" has no User document
UserRefs == {"u1", "admin", "ghost"}

\* documents of the "Contacts" collection, in the collection's natural order
Contacts ==
  [ c1 |-> [firstName |-> "Cy",  lastName |-> "Fox"],
    c2 |-> [firstName |-> "Di",  lastName |-> "Kim"] ]

ContactOrder == <<"c1", "c2">>

\* BSON null / a missing field, as seen by $concat and $toString
Null == "<null>"

(* ------------------------- request inputs ------------------------------ *)

\* req.body of POST /add
Bodies ==
  { [agenda |-> "Sync", dateTime |-> "2024-01-01T10:00:00Z", location |-> "HQ",
     notes |-> "slides", createBy |-> "u1", attendes |-> <<>>],
    [agenda |-> "Sync", dateTime |-> "2024-01-01T10:00:00Z", location |-> "HQ",
     notes |-> "slides", createBy |-> "u1", attendes |-> <<"c1", "c2">>],
    [agenda |-> "Plan", dateTime |-> "2024-02-02T09:00:00Z", location |-> "Lab",
     notes |-> "budget", createBy |-> "u2", attendes |-> <<"cx">>] }

\* a query value as the $match stage compares it: a BSON type and its text
Bson(t, v) == [t |-> t, v |-> v]

\* req.query of GET / : every value arrives as a string
Queries ==
  { <<>>,
    [createBy |-> Bson("string", "u2"), deleted |-> Bson("string", "true")] }

\* status of a request the handler never answered
NoResponse == 0

\* a handler whose promise rejects sends nothing itself: the request stays
\* unanswered, or the framework's default error handler answers 500
UnhandledOutcomes == {NoResponse, 500}

\* the store calls, any of which can reject
StoreCalls == {"save", "findById", "findOne", "aggregate", "findByIdAndUpdate",
               "updateMany"}

\* argument of a request that carries none
NoId == 0

\* what the handler sent: res.status(status) and the JSON body's message, the
\* error it caught ("" when none) and the documents or result it returned;
\* arg is the argument of the request answered: req.params.id of view and
\* deleteData, the ids in req.body of deleteMany, req.user.userId of index
Response(op, arg, status, message, err, data) ==
  [op |-> op, arg |-> arg, status |-> status, message |-> message, err |-> err,
   data |-> data]

(* ------------------------- the meeting schema -------------------------- *)

\* new MeetingHistory(req.body): the body's fields, deleted defaults to false
NewMeeting(body) ==
  [agenda |-> body.agenda, dateTime |-> body.dateTime, location |-> body.location,
   notes |-> body.notes, createBy |-> body.createBy, attendes |-> body.attendes,
   deleted |-> FALSE]

\* a stored document together with its _id
Doc(s, id) == [_id |-> id] @@ s[id]

Idle == [pc |-> "idle"]

Init ==
  /\ store = <<>>
  /\ res = Response("none", NoId, NoResponse, "", "", <<>>)
  /\ viewReq = Idle
  /\ indexReq = Idle

(* -------------------------------- add ---------------------------------- *)

\* a save that overwrites a document whose _id is already in the collection
SaveFails_upsert(s, id, ok) == ~ok

\* result.save(): an insert; an _id already in the collection is a duplicate key
SaveFails(s, id, ok) == ~ok \/ id \in DOMAIN s

Insert(s, id, body) == (id :> NewMeeting(body)) @@ s

add(body, id, ok) ==
  /\ IF SaveFails(store, id, ok)
       THEN /\ res' = Response("add", NoId, 400, "Failed to create", "save", <<>>)
            /\ UNCHANGED store
       ELSE /\ store' = Insert(store, id, body)
            /\ res' = Response("add", NoId, 200, "", "", <<Doc(store', id)>>)
  /\ UNCHANGED <<viewReq, indexReq>>

(* ------------------------ deleteData, deleteMany ----------------------- *)

\* an update that flips the flag instead of setting it
FindByIdAndUpdate_toggle(s, id) ==
  IF id \in DOMAIN s THEN [s EXCEPT ![id].deleted = ~s[id].deleted] ELSE s

\* an update that removes the document instead of flagging it
FindByIdAndUpdate_remove(s, id) == [i \in DOMAIN s \ {id} |-> s[i]]

\* MeetingHistory.findByIdAndUpdate(id, {deleted: true}): no document, no change
FindByIdAndUpdate(s, id) ==
  IF id \in DOMAIN s THEN [s EXCEPT ![id].deleted = TRUE] ELSE s

\* the document findByIdAndUpdate resolves to: the one before the update, or null
PriorDoc(s, id) == IF id \in DOMAIN s THEN <<Doc(s, id)>> ELSE <<>>

deleteData(id, ok) ==
  /\ IF ~ok
       THEN /\ res' = Response("deleteData", id, 400, "Failed to delete meeting",
                               "findByIdAndUpdate", <<>>)
            /\ UNCHANGED store
       ELSE /\ store' = FindByIdAndUpdate(store, id)
            /\ res' = Response("deleteData", id, 200, "Meeting deleted successfully",
                               "", PriorDoc(store, id))
  /\ UNCHANGED <<viewReq, indexReq>>

\* an update whose filter matches every document
UpdateMany_all(s, ids) == [i \in DOMAIN s |-> [s[i] EXCEPT !.deleted = TRUE]]

\* MeetingHistory.updateMany({_id: {$in: ids}}, {$set: {deleted: true}})
UpdateMany(s, ids) ==
  [i \in DOMAIN s |-> IF i \in ids THEN [s[i] EXCEPT !.deleted = TRUE] ELSE s[i]]

\* the summary updateMany resolves to
UpdateSummary(s, ids) ==
  [matchedCount  |-> Cardinality({i \in DOMAIN s : i \in ids}),
   modifiedCount |-> Cardinality({i \in DOMAIN s : i \in ids /\ ~s[i].deleted})]

deleteMany(ids, ok) ==
  /\ IF ~ok
       THEN /\ res' = Response("deleteMany", ids, 400, "Failed to delete meetings",
                               "updateMany", <<>>)
            /\ UNCHANGED store
       ELSE /\ store' = UpdateMany(store, ids)
            /\ res' = Response("deleteMany", ids, 200, "Meetings deleted successfully",
                               "", <<UpdateSummary(store, ids)>>)
  /\ UNCHANGED <<viewReq, indexReq>>

(* ----------------------- aggregation pipeline stages ------------------- *)

\* a pipeline value: an array, an embedded document, or a missing field
Array(items) == [kind |-> "array", items |-> items, obj |-> <<>>]
Object(o)    == [kind |-> "object", items |-> <<>>, obj |-> o]
Missing      == [kind |-> "missing", items |-> <<>>, obj |-> <<>>]

\* the outcome of a pipeline: the error that aborted it ("" when none), its documents
Ok(docs)    == [error |-> "", docs |-> docs]
Failed(msg) == [error |-> msg, docs |-> <<>>]

RECURSIVE IdsFrom(_, _)
\* the ids of s from i upwards, ascending: the order the collection is scanned in
IdsFrom(s, i) ==
  IF i > MaxMeetings THEN <<>>
  ELSE (IF i \in DOMAIN s THEN <<i>> ELSE <<>>) \o IdsFrom(s, i + 1)

\* { $match: {_id: id} }
MatchById(s, id) == IF id \in DOMAIN s THEN <<Doc(s, id)>> ELSE <<>>

\* $lookup from "User", localField createBy, foreignField _id, as createdByData
LookupCreatedBy(doc) ==
  doc @@ [createdByData |->
            IF doc.createBy \in DOMAIN Users
              THEN Array(<<Users[doc.createBy]>>) ELSE Array(<<>>)]

\* $lookup from "Contacts", localField attendes (an array), foreignField _id:
\* the contacts whose _id is among the references, in the collection's order
LookupAttendes(doc) ==
  LET refs == {doc.attendes[i] : i \in DOMAIN doc.attendes}
      hit(c) == c \in refs
  IN  doc @@ [attendesData |->
                Array([i \in DOMAIN SelectSeq(ContactOrder, hit) |->
                         Contacts[SelectSeq(ContactOrder, hit)[i]]])]

\* $unwind of one document with preserveNullAndEmptyArrays: one document per
\* element, the field replaced by the element; an empty array drops the field
UnwindDoc(doc, field) ==
  IF doc[field].items = <<>>
    THEN <<[doc EXCEPT ![field] = Missing]>>
    ELSE [i \in DOMAIN doc[field].items |->
            [doc EXCEPT ![field] = Object(doc[field].items[i])]]

RECURSIVE Unwind(_, _)
Unwind(docs, field) ==
  IF docs = <<>> THEN <<>>
  ELSE UnwindDoc(Head(docs), field) \o Unwind(Tail(docs), field)

\* the field path "$x.f": the field of an embedded document, else missing
FieldOf(v, f) == IF v.kind = "object" THEN v.obj[f] ELSE Null

\* $concat: null when any operand is null or missing
Concat(a, sep, b) == IF a = Null \/ b = Null THEN Null ELSE a \o sep \o b

\* createdByName: $concat [firstName, " ", lastName] of createdByData
CreatedByName(doc) ==
  Concat(FieldOf(doc.createdByData, "firstName"), " ",
         FieldOf(doc.createdByData, "lastName"))

MapError == "input to $map must be an array not object"

\* attendesNames: $map over "$attendesData"; null for a missing input, an
\* error for an input that is not an array
AttendesNames(input) ==
  IF input.kind = "array"
    THEN [error |-> "", isNull |-> FALSE,
          names |-> [i \in DOMAIN input.items |->
                       Concat(input.items[i].firstName, " ", input.items[i].lastName)]]
  ELSE IF input.kind = "missing"
    THEN [error |-> "", isNull |-> TRUE, names |-> <<>>]
    ELSE [error |-> MapError, isNull |-> TRUE, names |-> <<>>]

\* $addFields and $project of view
ViewProject(doc) ==
  [_id |-> doc._id, agenda |-> doc.agenda, dateTime |-> doc.dateTime,
   createdByName |-> CreatedByName(doc), location |-> doc.location,
   attendesNames |-> [isNull |-> AttendesNames(doc.attendesData).isNull,
                      names  |-> AttendesNames(doc.attendesData).names],
   notes |-> doc.notes]

\* the aggregation of view
ViewPipeline(s, id) ==
  LET matched  == MatchById(s, id)
      looked   == [i \in DOMAIN matched |-> LookupCreatedBy(matched[i])]
      unwound  == Unwind(looked, "createdByData")
      looked2  == [i \in DOMAIN unwound |-> LookupAttendes(unwound[i])]
      unwound2 == Unwind(looked2, "attendesData")
  IN  IF \E i \in DOMAIN unwound2 : AttendesNames(unwound2[i].attendesData).error # ""
        THEN Failed(MapError)
        ELSE Ok([i \in DOMAIN unwound2 |-> ViewProject(unwound2[i])])

(* -------------------------------- view --------------------------------- *)

\* MeetingHistory.findOne({_id: id}): the filter names the _id alone
FindOne(s, id) == IF id \in DOMAIN s THEN <<Doc(s, id)>> ELSE <<>>

\* a handler that skips the existence check
NotFound_never(response) == FALSE

\* if (!response)
NotFound(response) == response = <<>>

\* up to the second await: the existence check
view_findOne(id, ok) ==
  /\ viewReq.pc = "idle"
  /\ IF ~ok
       THEN /\ res' = Response("view", id, 400, "", "findOne", <<>>)
            /\ UNCHANGED viewReq
       ELSE IF NotFound(FindOne(store, id))
         THEN /\ res' = Response("view", id, 404, "No meeting found.", "", <<>>)
              /\ UNCHANGED viewReq
         ELSE /\ viewReq' = [pc |-> "found", id |-> id]
              /\ UNCHANGED res
  /\ UNCHANGED <<store, indexReq>>

\* from the second await: the aggregation and the response
view_aggregate(ok) ==
  /\ viewReq.pc = "found"
  /\ LET result == ViewPipeline(store, viewReq.id)
     IN  res' =
           IF ~ok THEN Response("view", viewReq.id, 400, "", "aggregate", <<>>)
           ELSE IF result.error # ""
             THEN Response("view", viewReq.id, 400, "", result.error, <<>>)
           ELSE IF Len(result.docs) = 0
             THEN Response("view", viewReq.id, 404, "No data found for this meeting.",
                           "", <<>>)
             ELSE Response("view", viewReq.id, 200, "", "", <<result.docs[1]>>)
  /\ viewReq' = Idle
  /\ UNCHANGED <<store, indexReq>>

(* -------------------------------- index -------------------------------- *)

\* a stored field as the $match stage compares it: no casting of the query
FieldBson(doc, f) ==
  IF f = "deleted" THEN Bson("bool", IF doc.deleted THEN "true" ELSE "false")
  ELSE IF f = "createBy" THEN Bson("objectId", doc.createBy)
  ELSE Bson("string", doc[f])

\* { $match: query }: every field of the query equals the document's field
Matches(doc, query) == \A f \in DOMAIN query : FieldBson(doc, f) = query[f]

\* User.findById(userId), then user?.role
RoleOf(userId) == IF userId \in DOMAIN Users THEN Users[userId].role ELSE Null

\* query.deleted = false
WithDeleted(query) == ("deleted" :> Bson("bool", "false")) @@ query

\* a handler in which the caller's createBy wins over the actor's
WithCreateBy_callerWins(query, userId) ==
  IF RoleOf(userId) # "superAdmin"
    THEN query @@ ("createBy" :> Bson("objectId", userId))
    ELSE query

\* if (user?.role !== "superAdmin") query.createBy = ObjectId(req.user.userId)
WithCreateBy(query, userId) ==
  IF RoleOf(userId) # "superAdmin"
    THEN ("createBy" :> Bson("objectId", userId)) @@ query
    ELSE query

\* $addFields and $project of index
IndexProject(doc) ==
  [_id |-> doc._id, agenda |-> doc.agenda, dateTime |-> doc.dateTime,
   createdByName |-> CreatedByName(doc)]

\* the aggregation of index
IndexPipeline(s, query) ==
  LET keep(i)  == Matches(Doc(s, i), query)
      ids      == SelectSeq(IdsFrom(s, 1), keep)
      looked   == [i \in DOMAIN ids |-> LookupCreatedBy(Doc(s, ids[i]))]
      unwound  == Unwind(looked, "createdByData")
  IN  [i \in DOMAIN unwound |-> IndexProject(unwound[i])]

\* up to the second await: the query is built and the actor's User is fetched,
\* outside the try block: a rejection of findById leaves the handler unanswered
index_findUser(userId, query, ok) ==
  /\ indexReq.pc = "idle"
  /\ IF ~ok
       THEN /\ \E status \in UnhandledOutcomes :
                 res' = Response("index", userId, status, "", "findById", <<>>)
            /\ UNCHANGED indexReq
       ELSE /\ indexReq' = [pc |-> "fetched", userId |-> userId, reqQuery |-> query,
                            query |-> WithCreateBy(WithDeleted(query), userId)]
            /\ UNCHANGED res
  /\ UNCHANGED <<store, viewReq>>

\* from the second await: the aggregation, inside the try block
index_aggregate(ok) ==
  /\ indexReq.pc = "fetched"
  /\ res' =
       IF ~ok
         THEN Response("index", indexReq.userId, 500, "Internal Server Error",
                       "aggregate", <<>>)
         ELSE Response("index", indexReq.userId, 200, "", "",
                       IndexPipeline(store, indexReq.query))
  /\ indexReq' = Idle
  /\ UNCHANGED <<store, viewReq>>

Next ==
  \/ \E body \in Bodies, id \in MeetingIds, ok \in BOOLEAN : add(body, id, ok)
  \/ \E id \in MeetingIds, ok \in BOOLEAN : deleteData(id, ok)
  \/ \E ids \in SUBSET MeetingIds, ok \in BOOLEAN : deleteMany(ids, ok)
  \/ \E id \in MeetingIds, ok \in BOOLEAN : view_findOne(id, ok)
  \/ \E ok \in BOOLEAN : view_aggregate(ok)
  \/ \E userId \in UserRefs, query \in Queries, ok \in BOOLEAN :
       index_findUser(userId, query, ok)
  \/ \E ok \in BOOLEAN : index_aggregate(ok)

Spec == Init /\ [][Next]_vars

(* ------------------------------ properties ----------------------------- *)

\* the response is one a handler sent after all its store calls resolved
Answered(op) == res.op = op /\ res.err \notin StoreCalls

\* C1: neither a list result nor a 200 view answer carries a record whose
\* deleted flag is true, whoever the actor is.
C1_DeletedNeverReturned ==
  /\ (res.op = "index" /\ res.status = 200) =>
       \A i \in DOMAIN res.data : ~store[res.data[i]._id].deleted
  /\ (res.op = "view" /\ res.status = 200) => ~store[res.arg].deleted

\* C2: for an actor who is not superAdmin the filter index executes constrains
\* createBy to the actor's identity whatever the caller's query says, and the
\* list it answers holds only meetings the actor created.
C2_ListScopedToActor ==
  /\ (indexReq.pc = "fetched" /\ RoleOf(indexReq.userId) # "superAdmin") =>
       /\ indexReq.query.createBy = Bson("objectId", indexReq.userId)
       /\ LET out == IndexPipeline(store, indexReq.query)
          IN  \A i \in DOMAIN out : store[out[i]._id].createBy = indexReq.userId
  /\ (res.op = "index" /\ res.status = 200 /\ RoleOf(res.arg) # "superAdmin") =>
       \A i \in DOMAIN res.data : store[res.data[i]._id].createBy = res.arg

\* C2 witness: u1 lists with a query naming u2 as creator while live meetings
\* of u1 and of u2 both exist, and the list is not empty
C2_Witness ==
  /\ indexReq.pc = "fetched" /\ indexReq.userId = "u1"
  /\ "createBy" \in DOMAIN indexReq.reqQuery
  /\ \E a, b \in DOMAIN store :
       /\ store[a].createBy = "u1" /\ ~store[a].deleted
       /\ store[b].createBy = "u2" /\ ~store[b].deleted
  /\ IndexPipeline(store, indexReq.query) # <<>>

\* a step in which the named handler, none of whose store calls failed, answers
Answers(op) ==
  /\ res'.op = op /\ res'.err \notin StoreCalls
  /\ UNCHANGED <<viewReq, indexReq>>

\* C3: deleteData is idempotent: on an existing id it answers 200 and leaves
\* the record deleted, and a call on a record that is already deleted (a second
\* call) changes nothing in the store.
C3_DeleteDataIdempotent ==
  [][ (Answers("deleteData") /\ res'.arg \in DOMAIN store) =>
        /\ res'.status = 200
        /\ res'.arg \in DOMAIN store' /\ store'[res'.arg].deleted
        /\ (store[res'.arg].deleted => store' = store) ]_vars

\* C3 witness: a deleteData answered 200 whose record was already deleted
C3_Witness ==
  /\ res.op = "deleteData" /\ res.status = 200
  /\ res.data # <<>> /\ res.data[1].deleted
  /\ res.arg \in DOMAIN store /\ store[res.arg].deleted

\* C4: a view of a created record answers 200 with the agenda, dateTime,
\* location and notes the record was created with, whatever its creator and
\* attendees.
C4_RoundTrip ==
  (Answered("view") /\ res.arg \in DOMAIN store) =>
    /\ res.status = 200
    /\ res.data[1].agenda = store[res.arg].agenda
    /\ res.data[1].dateTime = store[res.arg].dateTime
    /\ res.data[1].location = store[res.arg].location
    /\ res.data[1].notes = store[res.arg].notes

\* C5: a view of a meeting created by u1 with attendees [c1, c2] yields one
\* record with the creator's "first last" name and one "first last" name per
\* attendee.
C5_ViewNames ==
  (/\ Answered("view") /\ res.arg \in DOMAIN store
   /\ store[res.arg].createBy = "u1"
   /\ store[res.arg].attendes = <<"c1", "c2">>) =>
    /\ res.status = 200
    /\ Len(res.data) = 1
    /\ res.data[1].createdByName = "Ann Lee"
    /\ ~res.data[1].attendesNames.isNull
    /\ res.data[1].attendesNames.names = <<"Cy Fox", "Di Kim">>

C7_ViewAbsent ==
  /\ [](Answered("view") /\ res.arg \notin DOMAIN store =>
          res.status = 404 /\ res.message = "No meeting found.")
  /\ [][ (viewReq.pc = "idle" /\ Answers("view") /\ res' # res
          /\ res'.arg \notin DOMAIN store) =>
           (viewReq' = Idle /\ store' = store) ]_vars

\* C7 witness: the 404 for an absent id while another record exists
C7_Witness ==
  /\ res.op = "view" /\ res.status = 404 /\ res.message = "No meeting found."
  /\ res.arg \notin DOMAIN store /\ store # <<>>

\* C8: no step removes a record, clears a deleted flag, or changes a field
\* other than deleted; and only deleteData and deleteMany change a record.
C8_GrowOnly ==
  [][ \A id \in DOMAIN store :
        /\ id \in DOMAIN store'
        /\ store[id].deleted => store'[id].deleted
        /\ store'[id] = [store[id] EXCEPT !.deleted = store'[id].deleted]
        /\ store'[id] # store[id] => res'.op \in {"deleteData", "deleteMany"} ]_vars

\* C8 witness: a create refused for the _id of a record that is deleted
C8_Witness ==
  /\ res.op = "add" /\ res.status = 400
  /\ \E id \in DOMAIN store : store[id].deleted
  /\ DOMAIN store = MeetingIds

\* C9: a request one of whose store calls failed is answered with an error
\* status: 500 by index, 400 by the other handlers.
C9_FailureReported ==
  res.err \in StoreCalls => res.status = IF res.op = "index" THEN 500 ELSE 400

\* C10: while a view is between its two store reads its record is still in the
\* store and the enrichment yields it (or fails), so that
\* 404 "No data found for this meeting." is never answered.
C10_FoundStaysFound ==
  /\ viewReq.pc = "found" =>
       /\ viewReq.id \in DOMAIN store
       /\ LET result == ViewPipeline(store, viewReq.id)
          IN  result.error # "" \/ result.docs # <<>>
  /\ ~(res.op = "view" /\ res.message = "No data found for this meeting.")

\* C10 witness: a delete of the record was answered while its view is between
\* the two reads
C10_Witness ==
  /\ viewReq.pc = "found"
  /\ res.op \in {"deleteData", "deleteMany"} /\ res.status = 200
  /\ viewReq.id \in DOMAIN store /\ store[viewReq.id].deleted

====
